---- MODULE Spec2Model ----
(***************************************************************************)
(* teaching-prom/app/server.py: a FastAPI service that fabricates          *)
(* Prometheus telemetry.  One asyncio event loop runs five background      *)
(* tasks (a request loop, a seasonal loop and three job status loops) and  *)
(* the two HTTP routes.  A coroutine runs without interruption from one    *)
(* await to the next, so every action below is one such segment.  The      *)
(* push-gateway call is synchronous: it is split into its call and its     *)
(* return, and the calling task keeps the event-loop thread in between.    *)
(*                                                                         *)
(* Units: durations are milliseconds, a clock unit is 225 s (three eighths *)
(* of the 600 s wave period), sine values are per mille.                   *)
(***************************************************************************)
EXTENDS Integers, Sequences, FiniteSets, TLC

VARIABLES
  started,          \* startup_event has run
  running,          \* the task that holds the event-loop thread, or Idle
  pc,               \* each task's position (its suspension point)
  exc,              \* the exception that ended a task, or NoExc
  now,              \* the wall clock, as read by time.time()
  iterations,       \* loop iterations begun so far, over all loops
  metric_registry,  \* the shared scrape registry
  histogram,        \* REQUEST_DURATION_HISTOGRAM: label tuple -> child
  counter,          \* RHYTHEMIC_REQUEST_COUNTER: label tuple -> value
  observed,         \* history: observe() calls completed per label tuple
  duration,         \* simulate_requests: the local `duration`
  slept,            \* simulate_requests: the argument of its asyncio.sleep
  seasonal,         \* simulate_seasonal_counts: the locals `v` and `pod_v`,
                    \* the arguments of its generate_sin_wave call and,
                    \* as history, the amounts passed to inc so far
  nregs,            \* CollectorRegistry instances constructed by job loops
  nuuid,            \* uuid4 values drawn
  job,              \* each job loop's locals
  pushed,           \* history: each job loop's push_to_gateway calls
  response,         \* the last HTTP response served
  cycle             \* history: each loop's iterations begun and sleeps returned

vars == <<started, running, pc, exc, now, iterations, metric_registry,
          histogram, counter, observed, duration, slept, seasonal, nregs,
          nuuid, job, pushed, response, cycle>>

\* ------------------------------------------------------------------ bounds

\* Loop iterations begun in one run, over all five loops.
MaxIterations == 2
\* The last clock value.
MaxTime == 2

\* --------------------------------------------------------------- constants

PUSH_GATEWAY_URL == "http://localhost:19091"

Idle == "idle"
NoExc == "none"
Unset == "unset"

RequestTask == "simulate_requests"
SeasonalTask == "simulate_seasonal_counts"

\* startup_event's job profiles: (job_name, runtime, std)
JobProfiles ==
  << <<"long_running_job", 600, 30>>,
     <<"medium_running_job", 300, 30>>,
     <<"short_running_job", 60, 10>> >>

JobNames == { JobProfiles[i][1] : i \in 1..Len(JobProfiles) }

Tasks == {RequestTask, SeasonalTask} \cup JobNames

\* The (job_name, runtime, std) profile a job loop was created with.
Profile(j) ==
  JobProfiles[CHOOSE i \in 1..Len(JobProfiles) : JobProfiles[i][1] = j]

HistogramName == "sim_call_request_duration_seconds"
CounterName == "rhythm_component"
GaugeName == "sim_job_status"

\* ---------------------------------------------------------------- registry

\* CollectorRegistry(): no collector registered.  `raised` records a
\* "Duplicated timeseries" ValueError from register().
CollectorRegistry(id) == [id |-> id, names |-> {}, raised |-> FALSE]

\* CollectorRegistry.register, as called by a metric's constructor.
register(reg, name) ==
  IF name \in reg.names
    THEN [reg EXCEPT !.raised = TRUE]
    ELSE [reg EXCEPT !.names = @ \cup {name}]

\* A mutant of ModuleRegistry: the job status gauge is a module-level
\* metric of the shared registry too.
ModuleRegistry_WithGauge ==
  register(register(register(CollectorRegistry(0), HistogramName),
                    CounterName), GaugeName)

\* The module-level registrations: Histogram(...), then Counter(...).
ModuleRegistry ==
  register(register(CollectorRegistry(0), HistogramName), CounterName)

\* --------------------------------------------------------------- histogram

\* buckets = [0.1, 0.2, 0.5, 1, 2, 5], in milliseconds; +Inf is added last.
upper_bounds == <<100, 200, 500, 1000, 2000, 5000>>
NumBuckets == Len(upper_bounds) + 1

\* A mutant of BucketIndex: the first bucket whose bound is > v, so a
\* value on a boundary goes one bucket too far.
BucketIndex_Strict(v) ==
  IF \E i \in 1..Len(upper_bounds) : v < upper_bounds[i]
    THEN CHOOSE i \in 1..Len(upper_bounds) :
           /\ v < upper_bounds[i]
           /\ \A k \in 1..(i - 1) : v >= upper_bounds[k]
    ELSE NumBuckets

\* The bucket an observed value falls in: the first whose bound is >= v.
BucketIndex(v) ==
  IF \E i \in 1..Len(upper_bounds) : v <= upper_bounds[i]
    THEN CHOOSE i \in 1..Len(upper_bounds) :
           /\ v <= upper_bounds[i]
           /\ \A k \in 1..(i - 1) : v > upper_bounds[k]
    ELSE NumBuckets

NewChild == [buckets |-> [i \in 1..NumBuckets |-> 0], sum |-> 0]

\* metric.labels(...): the child of a label tuple, created on first use.
labels(metric, L, fresh) ==
  IF L \in DOMAIN metric
    THEN metric
    ELSE [x \in DOMAIN metric \cup {L} |->
            IF x = L THEN fresh ELSE metric[x]]

\* A mutant of observe: the sum is updated and the bucket is not.
observe_SumOnly(child, v) == [child EXCEPT !.sum = @ + v]

\* Histogram child .observe(v)
observe(child, v) ==
  [buckets |-> [child.buckets EXCEPT ![BucketIndex(v)] = @ + 1],
   sum |-> child.sum + v]

\* A mutant of HistogramObserve: the children of the other label tuples
\* are dropped.
HistogramObserve_Overwrite(h, L, v) ==
  [x \in {L} |-> observe(labels(h, L, NewChild)[L], v)]

\* REQUEST_DURATION_HISTOGRAM.labels(...).observe(duration)
HistogramObserve(h, L, v) ==
  LET m == labels(h, L, NewChild)
  IN  [m EXCEPT ![L] = observe(m[L], v)]

\* The label tuple the request loop records under.
RequestLabels(status) == <<"POST", "/magical/method", status>>

available_status == <<101, 200, 201, 202, 204, 400, 405, 500, 501, 504>>
\* status_weights, in tenths
status_weights == <<10, 800, 75, 15, 10, 20, 30, 30, 5, 5>>

\* random.choices(population, weights, k = 1)[0]: any element of positive
\* weight can be drawn.
choices(population, weights) ==
  { population[i] : i \in { k \in 1..Len(population) : weights[k] > 0 } }

\* The statuses drawn in the model: a common and a rare one.
StatusSamples == {200, 500} \cap choices(available_status, status_weights)

\* random.gauss(mu = 0.3, sigma = 0.05) is unbounded on both sides: a
\* negative value, one inside a bucket, one on a bucket boundary, the mean,
\* one past the last bound.
DurationSamples == {-50, 150, 200, 300, 6000}

\* Rendering of one histogram child: cumulative bucket counts, the count
\* (the +Inf cumulative count) and the sum.
RECURSIVE SumTo(_, _)
SumTo(f, n) == IF n = 0 THEN 0 ELSE f[n] + SumTo(f, n - 1)

Cumulative(buckets) == [i \in 1..NumBuckets |-> SumTo(buckets, i)]

ChildSamples(child) ==
  [bucket |-> Cumulative(child.buckets),
   count |-> SumTo(child.buckets, NumBuckets),
   sum |-> child.sum]

\* ----------------------------------------------------------------- counter

CounterLabels == <<"front_page", "view">>

\* A mutant of CounterInc: the amount replaces the value, as Gauge.set
\* would.
CounterInc_Set(c, L, amount) ==
  LET m == labels(c, L, 0)
  IN  [m EXCEPT ![L] = amount]

\* Counter child .inc(amount); a negative amount raises ValueError, which
\* the caller models.
CounterInc(c, L, amount) ==
  LET m == labels(c, L, 0)
  IN  [m EXCEPT ![L] = @ + amount]

\* -------------------------------------------------------------- sine wave

\* sin at multiples of an eighth of a turn, per mille.
sin8 == <<0, 707, 1000, 707, 0, -707, -1000, -707>>

\* A mutant of generate_sin_wave: the phase shift is added to the wave
\* instead of to the angle.
generate_sin_wave_PhaseOutside(time_value, amplitude, frequency, phase_shift, vertical_shift) ==
  amplitude * sin8[((frequency * time_value) % 8) + 1]
    + 1000 * phase_shift + 1000 * vertical_shift

\* generate_sin_wave: amplitude * sin(2 pi frequency t + phase) + shift.
\* The angle frequency * time_value + phase_shift is in eighths of a turn;
\* the result is per mille.
generate_sin_wave(time_value, amplitude, frequency, phase_shift, vertical_shift) ==
  amplitude * sin8[((frequency * time_value + phase_shift) % 8) + 1]
    + 1000 * vertical_shift

\* frequency = 1/600, in eighths of a turn per clock unit: a clock unit is
\* 225 s, three eighths of the period.
SeasonalFrequency == 3

\* random.randrange(1, 10): the two ends of 1..9.
AmpSamples == {1, 9}

max(a, b) == IF a >= b THEN a ELSE b

\* A mutant of PodV: the wave value is scaled without the clamp.
PodV_NoClamp(v) == v * 100

\* pod_v = max(v, 0) * 100
PodV(v) == max(v, 0) * 100

\* --------------------------------------------------------------- job loops

\* random.gauss(mu = base_run_time_in_seconds, sigma = std) is unbounded:
\* the mean and a negative value.
RunTimeSamples(j) == {-1, Profile(j)[2]}

possible_outcomes == <<"failure", "success">>
outcome_weights == <<1, 9>>

\* The locals of a job loop that has not begun a cycle.
NoRegistry == [id |-> -1, names |-> {}, raised |-> FALSE]

NoJob ==
  [registry |-> NoRegistry, gauge |-> <<>>, exec_id |-> 0,
   run_time_s |-> 0, outcome |-> Unset]

\* A mutant of set_to_current_time: setting one label's series drops the
\* series of the gauge's other labels.
set_to_current_time_Replace(gauge, L, t) == [x \in {L} |-> t]

\* Gauge child .set_to_current_time()
set_to_current_time(gauge, L, t) ==
  [x \in DOMAIN gauge \cup {L} |-> IF x = L THEN t ELSE gauge[x]]

\* What push_to_gateway submits: every series of the registry's collectors.
RegistrySeries(reg, gauge) ==
  IF GaugeName \in reg.names THEN gauge ELSE <<>>

\* push_to_gateway(PUSH_GATEWAY_URL, job = job_name, grouping_key =
\* {"exec_id": exec_id}, registry = job_state_registry), made with the
\* locals `loc` of the calling loop: the call as the history records it.
\* `status` is the transition the call is made for; `result` is "pending"
\* until the call returns ("ok") or raises ("raised").
push_to_gateway(j, loc, status) ==
  [url |-> PUSH_GATEWAY_URL,
   job |-> j,
   grouping_key |-> loc.exec_id,
   registry |-> loc.registry.id,
   series |-> RegistrySeries(loc.registry, loc.gauge),
   status |-> status,
   result |-> "pending"]

\* No HTTP request has been served.
NoResponse == [path |-> "", status |-> 0, json |-> <<>>, body |-> <<>>]

\* The seasonal loop's locals before its first tick.
NoWave == [v |-> 0, pod_v |-> 0, call |-> <<0, 0, 0, 0, 0>>, added |-> 0]

\* A loop begins an iteration; the sleep of an iteration returns.
Begin(t) == [cycle EXCEPT ![t].begun = @ + 1]
Woke(t) == [cycle EXCEPT ![t].woken = @ + 1]

\* A mutant of sleep_raises: a negative delay is rejected, as time.sleep
\* rejects it.
sleep_raises_Negative(delay) == delay < 0

\* asyncio.sleep(delay) accepts every delay: one that is <= 0 returns at
\* the task's next turn.
sleep_raises(delay) == FALSE

\* -------------------------------------------------------------------- init

Init ==
  /\ started = FALSE
  /\ running = Idle
  /\ pc = [t \in Tasks |-> "none"]
  /\ exc = [t \in Tasks |-> NoExc]
  /\ now = 0
  /\ iterations = 0
  /\ metric_registry = ModuleRegistry
  /\ histogram = <<>>
  /\ counter = <<>>
  /\ observed = <<>>
  /\ duration = 0
  /\ slept = 0
  /\ seasonal = NoWave
  /\ nregs = 0
  /\ nuuid = 0
  /\ job = [j \in JobNames |-> NoJob]
  /\ pushed = [j \in JobNames |-> <<>>]
  /\ response = NoResponse
  /\ cycle = [t \in Tasks |-> [begun |-> 0, woken |-> 0]]

\* ----------------------------------------------------------------- startup

\* A mutant of Startup: the last job profile gets no task.
Startup_DropsLastProfile ==
  /\ ~started
  /\ started' = TRUE
  /\ pc' = [t \in Tasks |->
              IF t = JobProfiles[Len(JobProfiles)][1] THEN "none" ELSE "ready"]
  /\ UNCHANGED <<running, exc, now, iterations, metric_registry, histogram,
                 counter, observed, duration, slept, seasonal, nregs, nuuid,
                 job, pushed, response, cycle>>

\* startup_event: create_task for the request loop, the seasonal loop and
\* one job status loop per profile.
Startup ==
  /\ ~started
  /\ started' = TRUE
  /\ pc' = [t \in Tasks |-> "ready"]
  /\ UNCHANGED <<running, exc, now, iterations, metric_registry, histogram,
                 counter, observed, duration, slept, seasonal, nregs, nuuid,
                 job, pushed, response,
                 cycle>>

\* A mutant of CanRun: a task ended by an exception stops every task.
CanRun_Crash(t) ==
  started /\ running = Idle /\ pc[t] # "none" /\ \A u \in Tasks : pc[u] # "dead"

\* A task can be resumed: the event loop is not inside a blocking call.
CanRun(t) == started /\ running = Idle /\ pc[t] # "none"

\* ------------------------------------------------------------ request loop

\* simulate_requests, from the top of the loop to `await logger.info`.
RequestObserve ==
  /\ CanRun(RequestTask)
  /\ pc[RequestTask] = "ready"
  /\ iterations < MaxIterations
  /\ \E d \in DurationSamples, status \in StatusSamples :
       /\ duration' = d
       /\ histogram' = HistogramObserve(histogram, RequestLabels(status), d)
       /\ observed' = CounterInc(observed, RequestLabels(status), 1)
  /\ iterations' = iterations + 1
  /\ cycle' = Begin(RequestTask)
  /\ pc' = [pc EXCEPT ![RequestTask] = "log"]
  /\ UNCHANGED <<started, running, exc, now, metric_registry, counter,
                 slept, seasonal, nregs, nuuid, job, pushed, response>>

\* A mutant of RequestLogged: the sleep is not awaited, and the loop goes
\* straight to its next iteration.
RequestLogged_NoAwait ==
  /\ CanRun(RequestTask)
  /\ pc[RequestTask] = "log"
  /\ slept' = duration
  /\ pc' = [pc EXCEPT ![RequestTask] = "ready"]
  /\ UNCHANGED <<started, running, exc, now, iterations, metric_registry,
                 histogram, counter, observed, duration, seasonal, nregs,
                 nuuid, job, pushed, response, cycle>>

\* A mutant of RequestLogged: the loop paces itself by the mean latency,
\* not by the value it sampled.
RequestLogged_FixedPace ==
  /\ CanRun(RequestTask)
  /\ pc[RequestTask] = "log"
  /\ slept' = 300
  /\ pc' = [pc EXCEPT ![RequestTask] = "sleep"]
  /\ UNCHANGED <<started, running, exc, now, iterations, metric_registry,
                 histogram, counter, observed, duration, seasonal, nregs,
                 nuuid, job, pushed, response, cycle>>

\* logger.info returns; the loop calls asyncio.sleep(duration).
RequestLogged ==
  /\ CanRun(RequestTask)
  /\ pc[RequestTask] = "log"
  /\ slept' = duration
  /\ pc' = [pc EXCEPT ![RequestTask] = "sleep"]
  /\ UNCHANGED <<started, running, exc, now, iterations, metric_registry,
                 histogram, counter, observed, duration, seasonal, nregs,
                 nuuid, job, pushed, response,
                 cycle>>

\* asyncio.sleep returns (at once for a delay <= 0); next iteration.
RequestWake ==
  /\ CanRun(RequestTask)
  /\ pc[RequestTask] = "sleep"
  /\ IF sleep_raises(slept)
       THEN /\ exc' = [exc EXCEPT ![RequestTask] = "ValueError"]
            /\ pc' = [pc EXCEPT ![RequestTask] = "dead"]
            /\ cycle' = cycle
       ELSE /\ exc' = exc
            /\ pc' = [pc EXCEPT ![RequestTask] = "ready"]
            /\ cycle' = Woke(RequestTask)
  /\ UNCHANGED <<started, running, now, iterations, metric_registry,
                 histogram, counter, observed, duration, slept, seasonal,
                 nregs, nuuid, job, pushed, response>>

\* ----------------------------------------------------------- seasonal loop

\* simulate_seasonal_counts, from the top of the loop to `await
\* logger.info`.  Counter.inc raises ValueError on a negative amount, which
\* ends the task.
SeasonalIncrement ==
  /\ CanRun(SeasonalTask)
  /\ pc[SeasonalTask] = "ready"
  /\ iterations < MaxIterations
  /\ \E current_time \in now..MaxTime, amp_noise \in AmpSamples :
       LET v == generate_sin_wave(current_time, amp_noise,
                                  SeasonalFrequency, 0, 0)
       IN  /\ now' = current_time
           /\ seasonal' =
                [v |-> v, pod_v |-> PodV(v),
                 call |-> <<current_time, amp_noise, SeasonalFrequency, 0, 0>>,
                 added |-> IF PodV(v) < 0 THEN seasonal.added
                                          ELSE seasonal.added + PodV(v)]
           /\ IF PodV(v) < 0
                THEN /\ counter' = labels(counter, CounterLabels, 0)
                     /\ exc' = [exc EXCEPT ![SeasonalTask] = "ValueError"]
                     /\ pc' = [pc EXCEPT ![SeasonalTask] = "dead"]
                ELSE /\ counter' = CounterInc(counter, CounterLabels, PodV(v))
                     /\ exc' = exc
                     /\ pc' = [pc EXCEPT ![SeasonalTask] = "log"]
  /\ iterations' = iterations + 1
  /\ cycle' = Begin(SeasonalTask)
  /\ UNCHANGED <<started, running, metric_registry, histogram, observed,
                 duration, slept, nregs, nuuid, job, pushed, response>>

\* logger.info returns; the loop calls asyncio.sleep(1.0 / sampling_rate).
SeasonalLogged ==
  /\ CanRun(SeasonalTask)
  /\ pc[SeasonalTask] = "log"
  /\ pc' = [pc EXCEPT ![SeasonalTask] = "sleep"]
  /\ UNCHANGED <<started, running, exc, now, iterations, metric_registry,
                 histogram, counter, observed, duration, slept, seasonal,
                 nregs, nuuid, job, pushed, response,
                 cycle>>

SeasonalWake ==
  /\ CanRun(SeasonalTask)
  /\ pc[SeasonalTask] = "sleep"
  /\ pc' = [pc EXCEPT ![SeasonalTask] = "ready"]
  /\ cycle' = Woke(SeasonalTask)
  /\ UNCHANGED <<started, running, exc, now, iterations, metric_registry,
                 histogram, counter, observed, duration, slept, seasonal,
                 nregs, nuuid, job, pushed, response>>

\* --------------------------------------------------------- job status loop

\* A mutant of CycleRegistry: the gauge of a later cycle is registered
\* into the registry of the loop's previous cycle.
CycleRegistry_Reuse(j) ==
  IF job[j].registry = NoRegistry
    THEN register(CollectorRegistry(nregs + 1), GaugeName)
    ELSE register(job[j].registry, GaugeName)

\* job_state_registry = CollectorRegistry(); Gauge("sim_job_status", ...,
\* registry = job_state_registry): the registry of one cycle.
CycleRegistry(j) == register(CollectorRegistry(nregs + 1), GaugeName)

\* A mutant of uuid4: the value drawn last is returned again.
uuid4_Repeat == IF nuuid = 0 THEN 1 ELSE nuuid

\* exec_id = str(uuid.uuid4()): a value never drawn before.
uuid4 == nuuid + 1

\* The task's last push_to_gateway call, with its result filled in.
Returned(j, result) ==
  [pushed EXCEPT ![j] = [@ EXCEPT ![Len(@)].result = result]]

\* simulate_process_state_change, from the top of the loop into the first
\* push_to_gateway call.  The task holds the thread when it comes straight
\* from the outcome push of its previous cycle.
JobStart(j) ==
  /\ started
  /\ pc[j] = "ready"
  /\ running \in {Idle, j}
  /\ iterations < MaxIterations
  /\ iterations' = iterations + 1
  /\ cycle' = Begin(j)
  /\ nregs' = nregs + 1
  /\ IF CycleRegistry(j).raised
       THEN /\ job' = [job EXCEPT ![j].registry = CycleRegistry(j)]
            /\ exc' = [exc EXCEPT ![j] = "ValueError"]
            /\ pc' = [pc EXCEPT ![j] = "dead"]
            /\ running' = Idle
            /\ UNCHANGED <<now, nuuid, pushed>>
       ELSE /\ \E t \in now..MaxTime :
                 /\ now' = t
                 /\ job' = [job EXCEPT ![j] =
                              [registry |-> CycleRegistry(j),
                               gauge |-> set_to_current_time(<<>>, <<"start">>, t),
                               exec_id |-> uuid4,
                               run_time_s |-> @.run_time_s,
                               outcome |-> @.outcome]]
            /\ nuuid' = nuuid + 1
            /\ pushed' = [pushed EXCEPT ![j] =
                            Append(@, push_to_gateway(j, job'[j], "start"))]
            /\ running' = j
            /\ pc' = [pc EXCEPT ![j] = "push_start"]
            /\ exc' = exc
  /\ UNCHANGED <<started, metric_registry, histogram, counter, observed,
                 duration, slept, seasonal, response>>

\* The start push returns (ok) or raises (~ok: the gateway is unreachable
\* or rejects the submission).  Nothing catches the exception: it ends
\* the task.  Otherwise the run time is drawn and logger.info awaited.
StartPushReturn(j) ==
  /\ running = j
  /\ pc[j] = "push_start"
  /\ \E ok \in BOOLEAN :
       IF ok
         THEN /\ pushed' = Returned(j, "ok")
              /\ \E r \in RunTimeSamples(j) :
                   job' = [job EXCEPT ![j].run_time_s = r]
              /\ pc' = [pc EXCEPT ![j] = "log_exec"]
              /\ exc' = exc
         ELSE /\ pushed' = Returned(j, "raised")
              /\ job' = job
              /\ pc' = [pc EXCEPT ![j] = "dead"]
              /\ exc' = [exc EXCEPT ![j] = "URLError"]
  /\ running' = Idle
  /\ UNCHANGED <<started, now, iterations, metric_registry, histogram,
                 counter, observed, duration, slept, seasonal, nregs, nuuid,
                 response,
                 cycle>>

\* logger.info returns; the loop calls asyncio.sleep(run_time_s).
JobLogged(j) ==
  /\ CanRun(j)
  /\ pc[j] = "log_exec"
  /\ pc' = [pc EXCEPT ![j] = "sleep"]
  /\ UNCHANGED <<started, running, exc, now, iterations, metric_registry,
                 histogram, counter, observed, duration, slept, seasonal,
                 nregs, nuuid, job, pushed, response,
                 cycle>>

\* asyncio.sleep returns; the outcome is drawn and logger.info awaited.
JobWake(j) ==
  /\ CanRun(j)
  /\ pc[j] = "sleep"
  /\ IF sleep_raises(job[j].run_time_s)
       THEN /\ job' = job
            /\ exc' = [exc EXCEPT ![j] = "ValueError"]
            /\ pc' = [pc EXCEPT ![j] = "dead"]
            /\ cycle' = cycle
       ELSE /\ \E o \in choices(possible_outcomes, outcome_weights) :
                 job' = [job EXCEPT ![j].outcome = o]
            /\ exc' = exc
            /\ pc' = [pc EXCEPT ![j] = "log_done"]
            /\ cycle' = Woke(j)
  /\ UNCHANGED <<started, running, now, iterations, metric_registry,
                 histogram, counter, observed, duration, slept, seasonal,
                 nregs, nuuid, pushed, response>>

\* logger.info returns; the outcome series is set on the cycle's gauge and
\* the second push_to_gateway call is made with the cycle's registry.
JobOutcome(j) ==
  /\ CanRun(j)
  /\ pc[j] = "log_done"
  /\ \E t \in now..MaxTime :
       /\ now' = t
       /\ job' = [job EXCEPT ![j].gauge =
                    set_to_current_time(@, <<job[j].outcome>>, t)]
  /\ pushed' = [pushed EXCEPT ![j] =
                  Append(@, push_to_gateway(j, job'[j], job[j].outcome))]
  /\ running' = j
  /\ pc' = [pc EXCEPT ![j] = "push_outcome"]
  /\ UNCHANGED <<started, exc, iterations, metric_registry, histogram,
                 counter, observed, duration, slept, seasonal, nregs, nuuid,
                 response,
                 cycle>>

\* The outcome push returns or raises.  On return the loop goes to its top
\* without an await: the task keeps the thread.
OutcomePushReturn(j) ==
  /\ running = j
  /\ pc[j] = "push_outcome"
  /\ \E ok \in BOOLEAN :
       IF ok
         THEN /\ pushed' = Returned(j, "ok")
              /\ pc' = [pc EXCEPT ![j] = "ready"]
              /\ exc' = exc
              /\ running' = j
         ELSE /\ pushed' = Returned(j, "raised")
              /\ pc' = [pc EXCEPT ![j] = "dead"]
              /\ exc' = [exc EXCEPT ![j] = "URLError"]
              /\ running' = Idle
  /\ UNCHANGED <<started, now, iterations, metric_registry, histogram,
                 counter, observed, duration, slept, seasonal, nregs, nuuid,
                 job, response,
                 cycle>>

\* ------------------------------------------------------------- HTTP routes

\* generate_latest(registry): every collector of the registry, rendered.
generate_latest(reg) ==
  [name \in reg.names |->
     IF name = HistogramName
       THEN [L \in DOMAIN histogram |-> ChildSamples(histogram[L])]
       ELSE IF name = CounterName THEN counter ELSE <<>>]

\* A route handler can run: the event loop is not inside a blocking call.
CanServe == started /\ running = Idle

\* A mutant of metrics: the histogram is reset once rendered.
metrics_Reset ==
  /\ CanServe
  /\ response' = [path |-> "/service/metrics", status |-> 200,
                  json |-> <<>>,
                  body |-> generate_latest(metric_registry)]
  /\ histogram' = <<>>
  /\ UNCHANGED <<started, running, pc, exc, now, iterations,
                 metric_registry, counter, observed, duration,
                 slept, seasonal, nregs, nuuid, job, pushed,
                 cycle>>

\* GET /service/metrics
metrics ==
  /\ CanServe
  /\ response' = [path |-> "/service/metrics", status |-> 200,
                  json |-> <<>>,
                  body |-> generate_latest(metric_registry)]
  /\ UNCHANGED <<started, running, pc, exc, now, iterations,
                 metric_registry, histogram, counter, observed, duration,
                 slept, seasonal, nregs, nuuid, job, pushed,
                 cycle>>

\* GET /
root ==
  /\ CanServe
  /\ response' = [path |-> "/", status |-> 200,
                  json |-> [message |->
                    "Welcome to FastAPI DEMO with Prometheus metrics!"],
                  body |-> <<>>]
  /\ UNCHANGED <<started, running, pc, exc, now, iterations,
                 metric_registry, histogram, counter, observed, duration,
                 slept, seasonal, nregs, nuuid, job, pushed,
                 cycle>>

\* ----------------------------------------------------------- specification

JobStep(j) ==
  \/ JobStart(j)
  \/ StartPushReturn(j)
  \/ JobLogged(j)
  \/ JobWake(j)
  \/ JobOutcome(j)
  \/ OutcomePushReturn(j)

Next ==
  \/ Startup
  \/ RequestObserve
  \/ RequestLogged
  \/ RequestWake
  \/ SeasonalIncrement
  \/ SeasonalLogged
  \/ SeasonalWake
  \/ \E j \in JobNames : JobStep(j)
  \/ metrics
  \/ root

Spec == Init /\ [][Next]_vars

\* generate_sin_wave on its own: the arguments are drawn at the start,
\* (time_value, amplitude, frequency, phase_shift, vertical_shift), and one
\* step calls the function on them.  Angles are in eighths of a turn.
SineInputs ==
  (-MaxTime..MaxTime) \X (-1..9) \X (0..3) \X (0..7) \X {0, 1}

SineInit ==
  /\ started = FALSE
  /\ running = Idle
  /\ pc = [t \in Tasks |-> "none"]
  /\ exc = [t \in Tasks |-> NoExc]
  /\ now = 0
  /\ iterations = 0
  /\ metric_registry = ModuleRegistry
  /\ histogram = <<>>
  /\ counter = <<>>
  /\ observed = <<>>
  /\ duration = 0
  /\ slept = 0
  /\ \E args \in SineInputs : seasonal = [NoWave EXCEPT !.call = args]
  /\ nregs = 0
  /\ nuuid = 0
  /\ job = [j \in JobNames |-> NoJob]
  /\ pushed = [j \in JobNames |-> <<>>]
  /\ response = NoResponse
  /\ cycle = [t \in Tasks |-> [begun |-> 0, woken |-> 0]]

SineCall ==
  /\ cycle[SeasonalTask].begun = 0
  /\ cycle' = Begin(SeasonalTask)
  /\ LET a == seasonal.call
     IN  seasonal' = [seasonal EXCEPT
                        !.v = generate_sin_wave(a[1], a[2], a[3], a[4], a[5])]
  /\ UNCHANGED <<started, running, pc, exc, now, iterations,
                 metric_registry, histogram, counter, observed, duration,
                 slept, nregs, nuuid, job, pushed, response>>

SineNext == SineCall

SineSpec == SineInit /\ [][SineNext]_vars

\* The event loop resumes a ready task, and sleeps, log writes and
\* push-gateway calls return: fairness for the request loop's steps, for
\* the return of every push and for a job loop that goes on to its next
\* cycle without yielding.  The other steps may or may not happen.
Fairness ==
  /\ WF_vars(RequestObserve)
  /\ WF_vars(RequestLogged)
  /\ WF_vars(RequestWake)
  /\ \A j \in JobNames :
       /\ WF_vars(StartPushReturn(j))
       /\ WF_vars(OutcomePushReturn(j))
       /\ WF_vars(running = j /\ JobStart(j))

FairSpec == Init /\ [][Next]_vars /\ Fairness

\* ------------------------------------------------------------------ claims

Outcomes == {"failure", "success"}
InPush(j) == pc[j] \in {"push_start", "push_outcome"}
Odd(i) == i % 2 = 1

\* C1 (as claimed): a push-gateway submission that fails is not fatal to the
\* job status loop that made it: the loop is not ended by the error.
C1_PushFailureNonFatal ==
  \A j \in JobNames :
    (\E i \in 1..Len(pushed[j]) : pushed[j][i].result = "raised")
      => (pc[j] # "dead" /\ exc[j] = NoExc)

\* C2 (as claimed): every push submits a registry holding only the series of
\* the transition pushed, and no registry instance is submitted twice.
C2_FreshRegistryPerPush ==
  /\ \A j \in JobNames : \A i \in 1..Len(pushed[j]) :
       DOMAIN pushed[j][i].series = { <<pushed[j][i].status>> }
  /\ \A j, k \in JobNames :
       \A a \in 1..Len(pushed[j]), b \in 1..Len(pushed[k]) :
         (j # k \/ a # b) => pushed[j][a].registry # pushed[k][b].registry

\* C3: in every cycle of every job status loop the start push is made before
\* the run-time sleep and one outcome push (failure or success) after it,
\* both under the loop's job name and the cycle's exec_id; every cycle has an
\* exec_id of its own; start pushes minus outcome pushes is 0 or 1.
C3_CycleOrder ==
  \A j \in JobNames :
    LET h == pushed[j]
        n == Len(h)
        starts == Cardinality({ i \in 1..n : h[i].status = "start" })
        outcomes == Cardinality({ i \in 1..n : h[i].status \in Outcomes })
    IN  /\ \A i \in 1..n :
             /\ h[i].job = j
             /\ Odd(i) => h[i].status = "start"
             /\ ~Odd(i) => /\ h[i].status \in Outcomes
                           /\ h[i].grouping_key = h[i - 1].grouping_key
                           /\ h[i - 1].result = "ok"
        /\ \A k \in JobNames : \A a \in 1..n, b \in 1..Len(pushed[k]) :
             (Odd(a) /\ Odd(b) /\ (j # k \/ a # b))
               => h[a].grouping_key # pushed[k][b].grouping_key
        /\ starts - outcomes \in {0, 1}
        /\ pc[j] \in {"push_start", "log_exec", "sleep", "log_done"}
             => /\ Odd(n)
                /\ h[n].grouping_key = job[j].exec_id
        /\ pc[j] \in {"push_outcome", "ready"} => ~Odd(n)
        /\ pc[j] = "push_outcome" => h[n].grouping_key = job[j].exec_id

\* C3 witness: a loop has made the start push of its second cycle after the
\* outcome push of its first.
C3_Witness ==
  \E j \in JobNames :
    /\ Len(pushed[j]) = 3
    /\ pushed[j][2].status \in Outcomes
    /\ pushed[j][3].grouping_key # pushed[j][1].grouping_key

\* C4 (as claimed): while a job status loop waits for a push-gateway
\* submission to return, every other loop and the routes can take steps.
C4_OthersRunDuringPush ==
  \A j \in JobNames :
    InPush(j) => (CanServe /\ \A t \in Tasks \ {j} : CanRun(t))

\* The rhythmic counter's value under {front_page, view}.
CounterValue ==
  IF CounterLabels \in DOMAIN counter THEN counter[CounterLabels] ELSE 0

\* C5: the rhythmic counter never decreases, every amount passed to inc is
\* non-negative and no tick of the seasonal loop raises.
C5_CounterMonotone ==
  /\ [](seasonal.pod_v >= 0 /\ exc[SeasonalTask] = NoExc)
  /\ [][CounterValue' >= CounterValue]_vars

\* C5 witness: a tick taken while the wave is negative, after the counter
\* has grown: the clamp made the amount 0.
C5_Witness ==
  /\ pc[SeasonalTask] = "log"
  /\ seasonal.v < 0
  /\ seasonal.pod_v = 0
  /\ CounterValue > 0

IsScrape(r) == r.path = "/service/metrics"

\* No observation count of snapshot a is larger than in snapshot b.
HistogramLeq(a, b) ==
  \A L \in DOMAIN a :
    /\ L \in DOMAIN b
    /\ a[L].count <= b[L].count
    /\ \A i \in 1..NumBuckets : a[L].bucket[i] <= b[L].bucket[i]

Rendered(h) == [L \in DOMAIN h |-> ChildSamples(h[L])]

RECURSIVE SetSum(_, _)
SetSum(f, S) ==
  IF S = {} THEN 0
  ELSE LET x == CHOOSE x \in S : TRUE IN f[x] + SetSum(f, S \ {x})

\* The histogram's total observation count, over all label tuples.
TotalCount ==
  SetSum([L \in DOMAIN histogram |-> ChildSamples(histogram[L]).count],
         DOMAIN histogram)

\* C6: a scrape never shows a smaller histogram count (cumulative bucket or
\* total, of any label tuple) than the scrape before it, and the counts a
\* scrape would show never decrease between scrapes.
C6_ScrapeCountsMonotone ==
  /\ [][(IsScrape(response) /\ IsScrape(response'))
         => HistogramLeq(response.body[HistogramName],
                         response'.body[HistogramName])]_vars
  /\ [][HistogramLeq(Rendered(histogram), Rendered(histogram'))]_vars

\* C6 witness: a snapshot that shows an observation is out of date: two
\* label tuples have been observed by now, and the next scrape shows more.
C6_Witness ==
  /\ IsScrape(response)
  /\ Cardinality(DOMAIN response.body[HistogramName]) = 1
  /\ Cardinality(DOMAIN histogram) = 2

\* C7: the request loop keeps observing whatever the job loops do: from
\* every state after startup the total count grows, as long as the model's
\* bound on iterations leaves room for one.
C7_RequestLoopProgress ==
  \A n \in 0..(MaxIterations - 1) :
    (started /\ TotalCount = n /\ iterations < MaxIterations)
      ~> (TotalCount > n \/ iterations = MaxIterations)

\* C7 witness: a job loop has stopped and the request loop has observed.
C7_Witness ==
  /\ \E j \in JobNames : pc[j] = "dead"
  /\ TotalCount >= 1
  /\ pc[RequestTask] = "sleep"

\* C8: every snapshot served shows, for every label tuple, a total count
\* equal to the +Inf cumulative bucket count and to the number of observe
\* calls completed under that tuple.
C8_SnapshotAtomic ==
  [][(response' # response /\ IsScrape(response'))
      => LET h == response'.body[HistogramName]
         IN  /\ DOMAIN h = DOMAIN observed'
             /\ \A L \in DOMAIN h :
                  /\ h[L].count = h[L].bucket[NumBuckets]
                  /\ h[L].count = observed'[L]]_vars

\* C8 witness: a snapshot taken after two observations under one tuple.
C8_Witness ==
  /\ IsScrape(response)
  /\ \E L \in DOMAIN response.body[HistogramName] :
       response.body[HistogramName][L].count = 2

\* C9: serving a route changes nothing but the response, and the snapshot
\* served is the rendering of the state the scrape leaves, so a second
\* scrape with no loop step in between returns the same.
C9_ScrapeReadOnly ==
  [][response' # response
      => /\ UNCHANGED <<started, running, pc, exc, now, iterations,
                        metric_registry, histogram, counter, observed,
                        duration, slept, seasonal, nregs, nuuid, job, pushed,
                 cycle>>
         /\ IsScrape(response')
              => response'.body = generate_latest(metric_registry)']_vars

\* C9 witness: a scrape served while the histogram holds an observation
\* and a job loop holds the registry of its cycle.
C9_Witness ==
  /\ IsScrape(response)
  /\ response.body[HistogramName] # <<>>
  /\ response.body = generate_latest(metric_registry)
  /\ \E j \in JobNames : pc[j] = "sleep"

\* C10: no registry ever raises a duplicate-registration error: not the
\* shared one, not the one of any cycle of any job loop, and every registry
\* pushed holds the sim_job_status gauge.
C10_NoDuplicateRegistration ==
  /\ ~metric_registry.raised
  /\ Cardinality(metric_registry.names) = 2
  /\ \A j \in JobNames :
       /\ exc[j] # "ValueError"
       /\ job[j].registry # NoRegistry =>
            /\ ~job[j].registry.raised
            /\ job[j].registry.names = {GaugeName}
       /\ \A i \in 1..Len(pushed[j]) : DOMAIN pushed[j][i].series # {}

\* C10 witness: two cycles of one job, with different execution ids, whose
\* start pushes both succeeded.
C10_Witness ==
  \E j \in JobNames :
    /\ Len(pushed[j]) = 3
    /\ pushed[j][1].result = "ok"
    /\ pushed[j][3].result = "ok"
    /\ pushed[j][1].grouping_key # pushed[j][3].grouping_key

\* C11: once startup_event has run there are exactly five loop tasks: the
\* request loop, the seasonal loop and one job status loop for each of
\* long_running_job (600, 30), medium_running_job (300, 30) and
\* short_running_job (60, 10); before it has run no loop has a task and
\* nothing has been recorded or pushed.
C11_FiveTasksAfterStartup ==
  /\ ~started =>
       /\ \A t \in Tasks : pc[t] = "none" /\ cycle[t].begun = 0
       /\ DOMAIN histogram = {}
       /\ DOMAIN counter = {}
       /\ \A j \in JobNames : pushed[j] = <<>>
  /\ started =>
       /\ { t \in Tasks : pc[t] # "none" } = Tasks
       /\ Cardinality({ t \in Tasks : pc[t] # "none" }) = 5
       /\ { t \in Tasks : pc[t] # "none" } \ {RequestTask, SeasonalTask}
            = {"long_running_job", "medium_running_job", "short_running_job"}
       /\ { <<j, Profile(j)[2], Profile(j)[3]>> : j \in JobNames }
            = { <<"long_running_job", 600, 30>>,
                <<"medium_running_job", 300, 30>>,
                <<"short_running_job", 60, 10>> }
       /\ \A j \in JobNames :
            pc[j] = "sleep" /\ job[j].run_time_s >= 0
              => job[j].run_time_s = Profile(j)[2]

\* C11 witness: after startup the request loop has recorded and the job
\* loop of the long profile sleeps for that profile's run time.
C11_Witness ==
  /\ started
  /\ pc[RequestTask] = "log"
  /\ pc["long_running_job"] = "sleep"
  /\ job["long_running_job"].run_time_s = 600

\* The cumulative bucket counts of label tuple L, all 0 before its first
\* observation.
CumulativeOf(h, L) ==
  IF L \in DOMAIN h THEN Cumulative(h[L].buckets)
                    ELSE [i \in 1..NumBuckets |-> 0]

\* C12: an observation of v under label tuple L adds exactly 1 to the
\* cumulative count of every bucket of L whose boundary is >= v (+Inf
\* included), changes no bucket of L whose boundary is < v, and changes no
\* count of any other label tuple.
C12_ObserveBuckets ==
  [][histogram' # histogram
      => \E L \in DOMAIN histogram' :
           /\ DOMAIN histogram' = DOMAIN histogram \cup {L}
           /\ \A M \in DOMAIN histogram : M # L => histogram'[M] = histogram[M]
           /\ \A i \in 1..NumBuckets :
                CumulativeOf(histogram', L)[i] =
                  CumulativeOf(histogram, L)[i]
                    + (IF i = NumBuckets \/ duration' <= upper_bounds[i]
                         THEN 1 ELSE 0)]_vars

\* C12 witness: 0.15 s has been observed under a label tuple while another
\* tuple holds an observation: its 0.1 bucket shows 0, its 0.2 bucket 1.
C12_Witness ==
  /\ pc[RequestTask] = "log"
  /\ duration = 150
  /\ Cardinality(DOMAIN histogram) = 2
  /\ \E L \in DOMAIN histogram :
       /\ CumulativeOf(histogram, L)[1] = 0
       /\ CumulativeOf(histogram, L)[2] = 1
       /\ CumulativeOf(histogram, L)[NumBuckets] = 1

\* C13: the rhythmic counter is additive: its value under a label tuple is
\* the sum of the amounts passed to inc under it (5 then 3 gives 8), every
\* increment adds exactly its amount, and a step that increments it leaves
\* every other label tuple and the histogram unchanged.
C13_CounterAdditive ==
  /\ [](CounterValue = seasonal.added)
  /\ [][counter' # counter
         => /\ CounterValue' = CounterValue + seasonal'.pod_v
            /\ DOMAIN counter' = DOMAIN counter \cup {CounterLabels}
            /\ \A L \in DOMAIN counter :
                 L # CounterLabels => counter'[L] = counter[L]
            /\ histogram' = histogram]_vars

\* C13 witness: a second positive amount has been added to a positive
\* value, and the two amounts differ.
C13_Witness ==
  /\ pc[SeasonalTask] = "log"
  /\ seasonal.pod_v > 0
  /\ CounterValue > seasonal.pod_v
  /\ CounterValue # 2 * seasonal.pod_v

\* C14: with a vertical shift of 0 and an amplitude A >= 0 the value of
\* generate_sin_wave lies in [-A, A], whatever the time, the frequency and
\* the phase shift (values are per mille: [-1000 A, 1000 A]).
C14_SineWithinAmplitude ==
  LET A == seasonal.call[2]
  IN  (A >= 0 /\ seasonal.call[5] = 0)
        => (-1000 * A <= seasonal.v /\ seasonal.v <= 1000 * A)

\* C14 witness: a call with a phase shift, at a negative time, that
\* returned the lower end -A of the range for an amplitude above 1.
C14_Witness ==
  /\ cycle[SeasonalTask].begun = 1
  /\ seasonal.call[1] < 0
  /\ seasonal.call[2] > 1
  /\ seasonal.call[3] > 1
  /\ seasonal.call[4] > 0
  /\ seasonal.call[5] = 0
  /\ seasonal.v = -1000 * seasonal.call[2]

\* C15: the iterations of a loop are strictly sequential: a loop begins an
\* iteration (its record step, or its start push) only from the top of the
\* loop, when the sleep of every iteration it began before has returned,
\* and a loop never has two iterations in progress.
C15_IterationsSequential ==
  /\ [](\A t \in Tasks :
          /\ cycle[t].begun - cycle[t].woken \in {0, 1}
          /\ pc[t] \in {"none", "ready", "log_done", "push_outcome"}
               => cycle[t].begun = cycle[t].woken
          /\ pc[t] \in {"log", "push_start", "log_exec", "sleep"}
               => cycle[t].begun = cycle[t].woken + 1)
  /\ [][\A t \in Tasks :
          cycle'[t].begun # cycle[t].begun
            => /\ pc[t] = "ready"
               /\ cycle[t].begun = cycle[t].woken
               /\ cycle'[t].begun = cycle[t].begun + 1
               /\ cycle'[t].woken = cycle[t].woken]_vars

\* C15 witness: a loop is in its second iteration, begun after the sleep
\* of its first returned.
C15_Witness ==
  \E t \in Tasks :
    /\ cycle[t].begun = 2
    /\ cycle[t].woken = 1
    /\ pc[t] \in {"log", "push_start"}

\* The sum of the values observed by the histogram, over all label tuples.
TotalSum ==
  SetSum([L \in DOMAIN histogram |-> histogram[L].sum], DOMAIN histogram)

\* C16: every iteration of the request loop samples one latency, records
\* one observation of that value, and then sleeps for that same value: the
\* delay passed to the sleep of an iteration is the value it observed, and
\* the value is not sampled again before the next iteration.
C16_SleepsObservedValue ==
  /\ [](/\ TotalCount = cycle[RequestTask].begun
        /\ (pc[RequestTask] = "sleep"
             \/ (pc[RequestTask] = "ready" /\ cycle[RequestTask].woken > 0))
             => slept = duration)
  /\ [][cycle'[RequestTask].begun # cycle[RequestTask].begun
         => /\ TotalCount' = TotalCount + 1
            /\ TotalSum' = TotalSum + duration'
            /\ \E L \in DOMAIN histogram' :
                 /\ histogram'[L].sum = (IF L \in DOMAIN histogram
                                           THEN histogram[L].sum ELSE 0)
                                        + duration'
                 /\ observed'[L] = (IF L \in DOMAIN observed
                                      THEN observed[L] ELSE 0) + 1]_vars
  /\ [][duration' # duration => pc[RequestTask] = "ready"]_vars
  /\ [][slept' # slept => (pc[RequestTask] = "log" /\ slept' = duration')]_vars
  /\ [][cycle'[RequestTask].woken # cycle[RequestTask].woken
         => (slept = duration /\ TotalCount' = TotalCount)]_vars

\* C16 witness: the second iteration observed 0.15 s and sleeps 0.15 s,
\* after a first iteration that observed another value.
C16_Witness ==
  /\ pc[RequestTask] = "sleep"
  /\ cycle[RequestTask].begun = 2
  /\ TotalCount = 2
  /\ slept = 150
  /\ TotalSum # 2 * slept

\* C17: a negative Gaussian sample is tolerated.  The request loop records
\* a negative latency in the smallest bucket, its sleep on that value
\* returns and the loop is back at its top; the sleep of a job loop on a
\* negative run time returns and the loop goes on to its outcome push.
\* Neither sleep raises, and neither leaves the loop unable to continue.
C17_NegativeSampleTolerated ==
  /\ [](/\ exc[RequestTask] = NoExc
        /\ \A j \in JobNames : exc[j] # "ValueError"
        /\ (pc[RequestTask] = "sleep" /\ slept < 0 /\ CanRun(RequestTask))
             => ENABLED RequestWake
        /\ \A j \in JobNames :
             (pc[j] = "sleep" /\ job[j].run_time_s < 0 /\ CanRun(j))
               => ENABLED JobWake(j)
        /\ \A j \in JobNames :
             (pc[j] = "log_done" /\ job[j].run_time_s < 0 /\ CanRun(j))
               => ENABLED JobOutcome(j))
  /\ [][(cycle'[RequestTask].begun # cycle[RequestTask].begun /\ duration' < 0)
         => \E L \in DOMAIN histogram' :
              /\ CumulativeOf(histogram', L)[1] = CumulativeOf(histogram, L)[1] + 1
              /\ histogram'[L].sum = (IF L \in DOMAIN histogram
                                        THEN histogram[L].sum ELSE 0)
                                     + duration']_vars
  /\ [][(pc[RequestTask] = "sleep" /\ slept < 0 /\ pc'[RequestTask] # "sleep")
         => pc'[RequestTask] = "ready"]_vars
  /\ [][\A j \in JobNames :
          (pc[j] = "sleep" /\ job[j].run_time_s < 0 /\ pc'[j] # "sleep")
            => pc'[j] = "log_done"]_vars

\* C17 witness: the request loop is back at its top after a sleep on a
\* negative latency, and a job loop that slept on a negative run time is
\* in its outcome push.
C17_Witness ==
  /\ pc[RequestTask] = "ready"
  /\ cycle[RequestTask].woken = 1
  /\ duration < 0
  /\ slept < 0
  /\ \E j \in JobNames :
       /\ pc[j] = "push_outcome"
       /\ job[j].run_time_s < 0

C19_SharedRegistryFrame ==
  /\ [](/\ metric_registry.names = {HistogramName, CounterName}
        /\ GaugeName \notin metric_registry.names
        /\ IsScrape(response)
             => DOMAIN response.body = {HistogramName, CounterName}
        /\ \A j \in JobNames :
             /\ job[j].registry.id # metric_registry.id
             /\ \A i \in 1..Len(pushed[j]) :
                  pushed[j][i].registry # metric_registry.id)
  /\ [][(job' # job \/ pushed' # pushed \/ nregs' # nregs
          \/ \E j \in JobNames : pc'[j] # pc[j])
         => /\ metric_registry' = metric_registry
            /\ histogram' = histogram
            /\ counter' = counter]_vars
  /\ [][metric_registry' = metric_registry]_vars
  /\ [][histogram' # histogram
         => /\ counter' = counter
            /\ pc[RequestTask] = "ready"
            /\ pc'[RequestTask] = "log"]_vars
  /\ [][counter' # counter
         => /\ histogram' = histogram
            /\ pc[SeasonalTask] = "ready"
            /\ pc'[SeasonalTask] = "log"]_vars

\* C19 witness: a scrape served after a job loop pushed and the request
\* loop recorded: it shows the two sinks, the histogram with the
\* observation, and nothing of the job loop.
C19_Witness ==
  /\ IsScrape(response)
  /\ DOMAIN response.body = {HistogramName, CounterName}
  /\ response.body[HistogramName] = Rendered(histogram)
  /\ DOMAIN histogram # {}
  /\ \E j \in JobNames :
       /\ Len(pushed[j]) = 2
       /\ pushed[j][2].result = "ok"

====
